---- MODULE Spec2Model ----
(***************************************************************************)
(* Model of src/source_code/canon_optimal.c: the GF(2) basis structure,    *)
(* in_span, add_to_basis, the canon_compress loop, save_compressed,        *)
(* load_compressed, canon_decompress, compute_stats and the two commands   *)
(* of main.                                                                *)
(*                                                                         *)
(* A GF2_Basis is a record                                                 *)
(*   basis          the bytes basis[0..rank-1] (a sequence, 1-based here)  *)
(*   rank           the rank field                                         *)
(*   derivation     the words derivation[0..rank-1]                        *)
(*   span_signature the set of indices x whose span_signature[x] is not 0  *)
(* The cells of basis and derivation at or above rank are never read by    *)
(* the program and are not part of the record.                             *)
(***************************************************************************)
EXTENDS Integers, Sequences, FiniteSets, TLC

\* ------------------------------------------------------------------ bounds
\* input bytes are drawn from 0..MaxUnit, inputs have at most MaxLen bytes
MaxUnit == 4
MaxLen == 4
\* the long inputs of SpecLong: at most MaxLongLen bytes drawn from LongUnits
MaxLongLen == 9
LongUnits == {2, 3}
\* the capacity that stands for MAX_RANK in SpecCap, where the capacity branch
\* of add_to_basis must be reachable with inputs of at most MaxLen bytes
CapModel == 3
\* the decompress command is run on the files of inputs of at most MaxFileLen
\* bytes, and on their damaged copies
MaxFileLen == 2
\* the width that stands for the 32 bits of a position in SpecPos, where an
\* input of at most MaxLongLen bytes must reach the end of the position range
PosBitsModel == 2

\* ------------------------------------------------------- program constants
MAX_RANK == 65536
\* unit width of a uint8_t
W == 8
\* width of the uint32_t position parameter of add_to_basis
POSITION_BITS == 32

Units == 0..MaxUnit

\* ------------------------------------------------------------ bit vectors
Pow2(k) == 2^k

Bit(v, k) == (v \div Pow2(k)) % 2

RECURSIVE XorFrom(_, _, _)
XorFrom(a, b, k) ==
  IF k >= W THEN 0
  ELSE ((Bit(a, k) + Bit(b, k)) % 2) * Pow2(k) + XorFrom(a, b, k + 1)

\* a ^ b on uint8_t
Xor(a, b) == XorFrom(a, b, 0)

\* int bit = 7; while (bit >= 0 && !(v & (1 << bit))) bit--;
RECURSIVE HighBitFrom(_, _)
HighBitFrom(v, bit) ==
  IF bit >= 0 /\ Bit(v, bit) = 0 THEN HighBitFrom(v, bit - 1) ELSE bit

highest_bit(v) == HighBitFrom(v, 7)

\* ------------------------------------------------------------------ basis
\* basis_init that leaves rank and basis[0] as the allocator handed them over
basis_init_dirty ==
  [basis |-> <<1>>, rank |-> 1, derivation |-> <<0>>, span_signature |-> {}]

basis_init ==
  [basis |-> << >>, rank |-> 0, derivation |-> << >>, span_signature |-> {}]

\* the loop of in_span from index i on: the residue after the last iteration
RECURSIVE reduce(_, _, _)
reduce(residue, B, i) ==
  IF i >= B.rank THEN residue
  ELSE LET b == B.basis[i + 1]
           bit_r == highest_bit(residue)
           bit_b == highest_bit(b)
       IN  IF bit_r = bit_b /\ bit_r >= 0
           THEN reduce(Xor(residue, b), B, i + 1)
           ELSE reduce(residue, B, i + 1)

\* the number of iterations the loop of in_span makes from index i on
RECURSIVE reduce_iterations(_, _)
reduce_iterations(B, i) ==
  IF i >= B.rank THEN 0
  ELSE 1 + reduce_iterations(B, i + 1)

\* Function InSpan of the paper's Algorithm 1: the plain reduction loop
InSpan(x, B) == reduce(x, B, 0) = 0

\* in_span that reports every unit as in the span of the empty basis
in_span_empty_true(x, B) ==
  IF B.rank = 0 THEN TRUE
  ELSE IF x \notin B.span_signature THEN FALSE
  ELSE reduce(x, B, 0) = 0

in_span(x, B) ==
  IF B.rank = 0 THEN FALSE
  ELSE IF x \notin B.span_signature THEN FALSE
  ELSE reduce(x, B, 0) = 0

\* the number of loop iterations of one call of in_span
in_span_iterations(x, B) ==
  IF B.rank = 0 THEN 0
  ELSE IF x \notin B.span_signature THEN 0
  ELSE reduce_iterations(B, 0)

\* add_to_basis that reports success when the capacity is reached
add_to_basis_true_at_cap(B, x, position, cap) ==
  IF in_span(x, B) THEN [B |-> B, ret |-> FALSE, err |-> FALSE]
  ELSE IF B.rank >= cap THEN [B |-> B, ret |-> TRUE, err |-> TRUE]
  ELSE [B |-> [basis |-> Append(B.basis, x),
               derivation |-> Append(B.derivation, position),
               span_signature |-> B.span_signature \cup {x}
                            \cup {Xor(B.basis[k], x) : k \in 1..B.rank},
               rank |-> B.rank + 1],
        ret |-> TRUE, err |-> FALSE]

\* add_to_basis that stores the new entry at index 0 and shifts the others
add_to_basis_prepend(B, x, position, cap) ==
  IF in_span(x, B) THEN [B |-> B, ret |-> FALSE, err |-> FALSE]
  ELSE IF B.rank >= cap THEN [B |-> B, ret |-> FALSE, err |-> TRUE]
  ELSE [B |-> [basis |-> <<x>> \o B.basis,
               derivation |-> <<position>> \o B.derivation,
               span_signature |-> B.span_signature \cup {x}
                            \cup {Xor(B.basis[k], x) : k \in 1..B.rank},
               rank |-> B.rank + 1],
        ret |-> TRUE, err |-> FALSE]

\* add_to_basis that stores the residue of the reduction instead of the unit
add_to_basis_residue(B, x, position, cap) ==
  IF in_span(x, B) THEN [B |-> B, ret |-> FALSE, err |-> FALSE]
  ELSE IF B.rank >= cap THEN [B |-> B, ret |-> FALSE, err |-> TRUE]
  ELSE [B |-> [basis |-> Append(B.basis, reduce(x, B, 0)),
               derivation |-> Append(B.derivation, position),
               span_signature |-> B.span_signature \cup {x}
                            \cup {Xor(B.basis[k], x) : k \in 1..B.rank},
               rank |-> B.rank + 1],
        ret |-> TRUE, err |-> FALSE]

\* add_to_basis that marks the unit in span_signature before the capacity test
add_to_basis_sig_first(B, x, position, cap) ==
  IF in_span(x, B) THEN [B |-> B, ret |-> FALSE, err |-> FALSE]
  ELSE IF B.rank >= cap
       THEN [B |-> [B EXCEPT !.span_signature = @ \cup {x}], ret |-> FALSE, err |-> TRUE]
  ELSE [B |-> [basis |-> Append(B.basis, x),
               derivation |-> Append(B.derivation, position),
               span_signature |-> B.span_signature \cup {x}
                            \cup {Xor(B.basis[k], x) : k \in 1..B.rank},
               rank |-> B.rank + 1],
        ret |-> TRUE, err |-> FALSE]

\* add_to_basis that stores the basis index in the derivation map
add_to_basis_rank_as_position(B, x, position, cap) ==
  IF in_span(x, B) THEN [B |-> B, ret |-> FALSE, err |-> FALSE]
  ELSE IF B.rank >= cap THEN [B |-> B, ret |-> FALSE, err |-> TRUE]
  ELSE [B |-> [basis |-> Append(B.basis, x),
               derivation |-> Append(B.derivation, B.rank),
               span_signature |-> B.span_signature \cup {x}
                            \cup {Xor(B.basis[k], x) : k \in 1..B.rank},
               rank |-> B.rank + 1],
        ret |-> TRUE, err |-> FALSE]

\* add_to_basis whose capacity test is rank > cap
add_to_basis_cap_off_by_one(B, x, position, cap) ==
  IF in_span(x, B) THEN [B |-> B, ret |-> FALSE, err |-> FALSE]
  ELSE IF B.rank > cap THEN [B |-> B, ret |-> FALSE, err |-> TRUE]
  ELSE [B |-> [basis |-> Append(B.basis, x),
               derivation |-> Append(B.derivation, position),
               span_signature |-> B.span_signature \cup {x}
                            \cup {Xor(B.basis[k], x) : k \in 1..B.rank},
               rank |-> B.rank + 1],
        ret |-> TRUE, err |-> FALSE]

\* add_to_basis under a capacity cap (MAX_RANK in the program): the structure
\* after the call, the value returned, and whether the call printed
\* "Error: Maximum rank exceeded"
add_to_basis(B, x, position, cap) ==
  IF in_span(x, B) THEN [B |-> B, ret |-> FALSE, err |-> FALSE]
  ELSE IF B.rank >= cap THEN [B |-> B, ret |-> FALSE, err |-> TRUE]
  ELSE [B |-> [basis |-> [k \in 1..(B.rank + 1) |->
                            IF k = B.rank + 1 THEN x ELSE B.basis[k]],
               derivation |-> [k \in 1..(B.rank + 1) |->
                            IF k = B.rank + 1 THEN position ELSE B.derivation[k]],
               span_signature |-> B.span_signature \cup {x}
                            \cup {Xor(B.basis[k], x) : k \in 1..B.rank},
               rank |-> B.rank + 1],
        ret |-> TRUE, err |-> FALSE]

\* the conversion of the uint64_t n to an unsigned integer of w bits: its w
\* low bits
RECURSIVE to_uint(_, _)
to_uint(n, w) ==
  IF w = 0 \/ n = 0 THEN 0
  ELSE (n % 2) + 2 * to_uint(n \div 2, w - 1)

\* the loop of canon_compress from index i on, as one function: the structure
\* it returns
RECURSIVE compress_from(_, _, _, _)
compress_from(B, d, i, cap) ==
  IF i >= Len(d) THEN B
  ELSE compress_from(add_to_basis(B, d[i + 1], to_uint(i, POSITION_BITS), cap).B,
                     d, i + 1, cap)

canon_compress(d, cap) == compress_from(basis_init, d, 0, cap)

\* ------------------------------------------------------------ file format
Magic == <<67, 65, 78, 79, 78>>

\* a uint32_t as fwrite lays it out (little endian)
le32(v) == <<v % 256, (v \div 256) % 256, (v \div 65536) % 256, (v \div 16777216) % 256>>

from_le32(s) == s[1] + 256 * s[2] + 65536 * s[3] + 16777216 * s[4]

RECURSIVE le32_all(_)
le32_all(s) == IF s = << >> THEN << >> ELSE le32(Head(s)) \o le32_all(Tail(s))

\* a file with the derivation map written before the basis bytes
file_of_swapped(B) ==
  Magic \o le32(B.rank) \o le32_all(SubSeq(B.derivation, 1, B.rank))
        \o SubSeq(B.basis, 1, B.rank)

\* the bytes save_compressed writes
file_of(B) ==
  Magic \o le32(B.rank) \o SubSeq(B.basis, 1, B.rank)
        \o le32_all(SubSeq(B.derivation, 1, B.rank))

\* the structure load_compressed builds from a file that holds everything
\* its header declares
loaded_of(f) ==
  LET r == from_le32(SubSeq(f, 6, 9))
  IN  [basis |-> SubSeq(f, 10, 9 + r),
       rank |-> r,
       derivation |-> [k \in 1..r |-> from_le32(SubSeq(f, 10 + r + 4 * (k - 1), 9 + r + 4 * k))],
       span_signature |-> {}]

\* header[6] = {0} after fread(header, 1, 5, f): the bytes read, then zeroes
header_of(f) == [k \in 1..5 |-> IF k <= Len(f) THEN f[k] ELSE 0]

\* the C string held in a zero-terminated buffer
cstr(h) ==
  LET z == {k \in 1..Len(h) : h[k] = 0}
  IN  IF z = {} THEN h
      ELSE SubSeq(h, 1, (CHOOSE k \in z : \A j \in z : k <= j) - 1)

\* a header check that compares only the bytes fread delivered
header_ok_prefix(f) ==
  LET n == IF Len(f) < 5 THEN Len(f) ELSE 5
  IN  SubSeq(header_of(f), 1, n) = SubSeq(Magic, 1, n)

\* strcmp(header, "CANON") == 0
header_ok(f) == cstr(header_of(f)) = Magic

\* the values a byte or word can hold that no fread filled (malloc'ed memory,
\* or the element of a partial read)
Uninit == {0, 1}

\* the sequences that start with the n cells read and end with r - n cells
\* that were not
filled_to(read, r) ==
  {read \o u : u \in [1..(r - Len(read)) -> Uninit]}

\* fread(&B->rank, sizeof(uint32_t), 1, f) on the bytes left after the magic:
\* a whole element, nothing (rank stays 0), or a partial element
rank_read(rest) ==
  IF Len(rest) >= 4 THEN {from_le32(SubSeq(rest, 1, 4))}
  ELSE IF Len(rest) = 0 THEN {0}
  ELSE {0, from_le32([k \in 1..4 |-> IF k <= Len(rest) THEN rest[k] ELSE 0])}

\* load_compressed on any file: the results it can return. No return value of
\* fread is checked.
load_results(f) ==
  IF ~header_ok(f) THEN {[null |-> TRUE, B |-> basis_init]}
  ELSE
    LET rest == SubSeq(f, 6, Len(f))
        body == SubSeq(rest, 5, Len(rest))
    IN  UNION {
          LET nb == IF r <= Len(body) THEN r ELSE Len(body)
              dbody == SubSeq(body, nb + 1, Len(body))
              nw == IF r <= Len(dbody) \div 4 THEN r ELSE Len(dbody) \div 4
              words == [k \in 1..nw |-> from_le32(SubSeq(dbody, 4 * k - 3, 4 * k))]
          IN  {[null |-> FALSE,
                B |-> [basis |-> b, rank |-> r, derivation |-> d,
                       span_signature |-> {}]] :
                 b \in filled_to(SubSeq(body, 1, nb), r),
                 d \in filled_to(words, r)}
          : r \in rank_read(rest)}

\* compute_stats, without its floating-point fields
compute_stats(input_size, B) ==
  [input_size |-> input_size, basis_size |-> B.rank,
   derivation_size |-> B.rank * 4, rank |-> B.rank]

\* canon_decompress that copies one byte less than the rank
canon_decompress_short(B) == SubSeq(B.basis, 1, B.rank - 1)

\* canon_decompress: output_size = rank, output = the first rank basis bytes
canon_decompress(B) == SubSeq(B.basis, 1, B.rank)

\* ------------------------------------------------------------------ state
VARIABLES
  data,     \* the input bytes (data[1..size] here, data[0..size-1] in C)
  i,        \* the loop index of canon_compress: units processed so far
  B,        \* the GF2_Basis built by canon_compress
  ret,      \* the value the last add_to_basis call returned
  pc,       \* where the run is
  file,     \* the bytes of the compressed file
  L,        \* the GF2_Basis load_compressed returns
  output,   \* the bytes canon_decompress returns
  cmd,      \* the command line of main: "usage" (argc < 3), "compress",
            \* "decompress", "other"; "none" when no run of main is modelled
  in_ok,    \* fopen of the input file succeeds
  infile,   \* the bytes of the input file
  out_ok,   \* fopen of the output file succeeds
  out_written, \* the output file was opened for writing (created or truncated)
  outfile,  \* the bytes written to the output file
  exit_code, \* the value main returned, -1 while it runs
  errs,     \* the failures met so far: library calls that failed and errors
            \* the program detected
  stats     \* the CompressionStats of compute_stats

env == <<cmd, in_ok, infile, out_ok, out_written, outfile, exit_code, stats>>

vars == <<data, i, B, ret, pc, file, L, output, env, errs>>

no_stats == [input_size |-> 0, basis_size |-> 0, derivation_size |-> 0, rank |-> 0]

\* main has not acted
EnvIdle ==
  /\ out_written = FALSE
  /\ outfile = << >>
  /\ exit_code = -1
  /\ errs = {}
  /\ stats = no_stats

size == Len(data)

RECURSIVE SeqsUpTo(_, _)
SeqsUpTo(S, n) ==
  IF n = 0 THEN {<< >>}
  ELSE LET shorter == SeqsUpTo(S, n - 1)
       IN  shorter \cup {Append(s, x) : s \in {t \in shorter : Len(t) = n - 1}, x \in S}

InitWith(inputs) ==
  /\ data \in inputs
  /\ i = 0
  /\ B = basis_init
  /\ ret = FALSE
  /\ pc = "compress"
  /\ file = << >>
  /\ L = basis_init
  /\ output = << >>
  /\ cmd = "none"
  /\ in_ok = TRUE
  /\ infile = << >>
  /\ out_ok = TRUE
  /\ EnvIdle

Init == InitWith(SeqsUpTo(Units, MaxLen))

InitLong == InitWith(SeqsUpTo(LongUnits, MaxLongLen))

\* a loop that takes the units from the last to the first
CompressStep_reverse(cap, posbits) ==
  /\ pc = "compress"
  /\ i < size
  /\ LET r == add_to_basis(B, data[size - i], to_uint(i, posbits), cap)
     IN  /\ B' = r.B
         /\ ret' = r.ret
         /\ errs' = IF r.err THEN errs \cup {"max_rank"} ELSE errs
  /\ i' = i + 1
  /\ UNCHANGED <<data, pc, file, L, output, env>>

\* one iteration of the loop of canon_compress: add_to_basis(B, data[i], i),
\* the uint64_t i converted to the position parameter of posbits bits
CompressStep(cap, posbits) ==
  /\ pc = "compress"
  /\ i < size
  /\ LET r == add_to_basis(B, data[i + 1], to_uint(i, posbits), cap)
     IN  /\ B' = r.B
         /\ ret' = r.ret
         /\ errs' = IF r.err THEN errs \cup {"max_rank"} ELSE errs
  /\ i' = i + 1
  /\ UNCHANGED <<data, pc, file, L, output, env>>

\* the loop ends, canon_compress returns B
CompressReturn ==
  /\ pc = "compress"
  /\ i >= size
  /\ pc' = "compressed"
  /\ UNCHANGED <<data, i, B, ret, file, L, output, env, errs>>

save_compressed ==
  /\ pc = "compressed"
  /\ file' = file_of(B)
  /\ pc' = "saved"
  /\ UNCHANGED <<data, i, B, ret, L, output, env, errs>>

load_compressed ==
  /\ pc = "saved"
  /\ L' = loaded_of(file)
  /\ pc' = "loaded"
  /\ UNCHANGED <<data, i, B, ret, file, output, env, errs>>

Decompress ==
  /\ pc = "loaded"
  /\ output' = canon_decompress(L)
  /\ pc' = "done"
  /\ UNCHANGED <<data, i, B, ret, file, L, env, errs>>

Pipeline == CompressReturn \/ save_compressed \/ load_compressed \/ Decompress

Next == CompressStep(MAX_RANK, POSITION_BITS) \/ Pipeline

NextCap == CompressStep(CapModel, POSITION_BITS) \/ Pipeline

NextPos == CompressStep(MAX_RANK, PosBitsModel) \/ Pipeline

\* ------------------------------------------------------------------- main
Prefixes(f) == {SubSeq(f, 1, n) : n \in 0..Len(f)}

\* f with one byte of its magic replaced
BadMagic(f) == {[f EXCEPT ![k] = v] : k \in 1..5, v \in {0, 88}}

\* the files save_compressed writes for the inputs of at most MaxFileLen bytes
GoodFiles == {file_of(canon_compress(d, MAX_RANK)) : d \in SeqsUpTo(Units, MaxFileLen)}

\* the input files of the decompress command: whole, truncated anywhere, or
\* with a damaged magic
DecompressFiles == UNION {Prefixes(f) \cup BadMagic(f) : f \in GoodFiles}

\* a file that declares one basis byte more than the capacity CapModel, and
\* holds them
OverFile ==
  Magic \o le32(CapModel + 1) \o [k \in 1..(CapModel + 1) |-> 1]
        \o le32_all([k \in 1..(CapModel + 1) |-> k - 1])

\* that file, whole or truncated after its rank field
OverFiles == {f \in Prefixes(OverFile) : Len(f) >= 9}

InitMainWith(files) ==
  /\ cmd \in {"usage", "compress", "decompress", "other"}
  /\ in_ok \in BOOLEAN
  /\ out_ok \in BOOLEAN
  /\ \/ cmd = "compress" /\ in_ok /\ infile \in SeqsUpTo(Units, MaxLen)
     \/ cmd = "decompress" /\ in_ok /\ infile \in files
     \/ (cmd \in {"usage", "other"} \/ ~in_ok) /\ infile = << >>
  /\ data = << >>
  /\ i = 0
  /\ B = basis_init
  /\ ret = FALSE
  /\ pc = "main"
  /\ file = << >>
  /\ L = basis_init
  /\ output = << >>
  /\ EnvIdle

InitMain == InitMainWith(DecompressFiles)

InitMainCap == InitMainWith(DecompressFiles \cup OverFiles)

\* main returns code
Exit(code) ==
  /\ exit_code' = code
  /\ pc' = "exit"

\* argc < 3: the usage text, return 1
main_usage ==
  /\ pc = "main"
  /\ cmd = "usage"
  /\ Exit(1)
  /\ UNCHANGED <<data, i, B, ret, file, L, output, errs>>
  /\ UNCHANGED <<cmd, in_ok, infile, out_ok, out_written, outfile, stats>>

\* an unknown command that is let through as a success
main_unknown_zero ==
  /\ pc = "main"
  /\ cmd = "other"
  /\ errs' = errs \cup {"unknown_command"}
  /\ Exit(0)
  /\ UNCHANGED <<data, i, B, ret, file, L, output>>
  /\ UNCHANGED <<cmd, in_ok, infile, out_ok, out_written, outfile, stats>>

\* neither compress nor decompress: "Error: Unknown command", return 1
main_unknown ==
  /\ pc = "main"
  /\ cmd = "other"
  /\ errs' = errs \cup {"unknown_command"}
  /\ Exit(1)
  /\ UNCHANGED <<data, i, B, ret, file, L, output>>
  /\ UNCHANGED <<cmd, in_ok, infile, out_ok, out_written, outfile, stats>>

\* compress: read_file(input_file, &size); if (!data) return 1;
main_read_file ==
  /\ pc = "main"
  /\ cmd = "compress"
  /\ \/ /\ ~in_ok
        /\ errs' = errs \cup {"fopen_in"}
        /\ Exit(1)
        /\ UNCHANGED data
     \/ /\ in_ok
        /\ Len(infile) = 0
        \* malloc(0) may return NULL
        /\ errs' = errs \cup {"malloc"}
        /\ Exit(1)
        /\ UNCHANGED data
     \/ /\ in_ok
        /\ data' = infile
        /\ pc' = "compress"
        /\ UNCHANGED <<errs, exit_code>>
  /\ UNCHANGED <<i, B, ret, file, L, output>>
  /\ UNCHANGED <<cmd, in_ok, infile, out_ok, out_written, outfile, stats>>

\* compress: compute_stats and print_stats
main_stats ==
  /\ pc = "compressed"
  /\ cmd = "compress"
  /\ stats' = compute_stats(size, B)
  /\ pc' = "m_stats"
  /\ UNCHANGED <<data, i, B, ret, file, L, output, errs>>
  /\ UNCHANGED <<cmd, in_ok, infile, out_ok, out_written, outfile, exit_code>>

\* compress: if (save_compressed(output_file, basis)) printf(...); cleanup;
\* return 0
main_save ==
  /\ pc = "m_stats"
  /\ IF out_ok
     THEN /\ out_written' = TRUE
          /\ outfile' = file_of(B)
          /\ UNCHANGED errs
     ELSE /\ errs' = errs \cup {"fopen_out"}
          /\ UNCHANGED <<out_written, outfile>>
  /\ Exit(0)
  /\ UNCHANGED <<data, i, B, ret, file, L, output>>
  /\ UNCHANGED <<cmd, in_ok, infile, out_ok, stats>>

\* decompress: load_compressed(input_file); if (!basis) return 1;
\* A rank above the cap cells of the buffers makes fread write past their end:
\* the process is killed by a signal, or goes on with what was read.
main_load(cap) ==
  /\ pc = "main"
  /\ cmd = "decompress"
  /\ \/ /\ ~in_ok
        /\ errs' = errs \cup {"fopen_in"}
        /\ Exit(1)
        /\ UNCHANGED L
     \/ /\ in_ok
        /\ \E l \in load_results(infile), killed \in BOOLEAN :
             /\ killed => (~l.null /\ l.B.rank > cap)
             /\ IF l.null
                THEN /\ errs' = errs \cup {"bad_magic"}
                     /\ Exit(1)
                     /\ UNCHANGED L
                ELSE IF killed
                THEN /\ Exit(139)
                     /\ UNCHANGED <<L, errs>>
                ELSE /\ L' = l.B
                     /\ pc' = "m_loaded"
                     /\ UNCHANGED <<errs, exit_code>>
  /\ UNCHANGED <<data, i, B, ret, file, output>>
  /\ UNCHANGED <<cmd, in_ok, infile, out_ok, out_written, outfile, stats>>

\* a decompress step that empties the structure once it has copied the basis
main_decompress_consume ==
  /\ pc = "m_loaded"
  /\ output' = canon_decompress(L)
  /\ L' = [L EXCEPT !.rank = 0]
  /\ pc' = "m_decompressed"
  /\ UNCHANGED <<data, i, B, ret, file, errs, env>>

\* decompress: output = canon_decompress(basis, &output_size)
main_decompress ==
  /\ pc = "m_loaded"
  /\ output' = canon_decompress(L)
  /\ pc' = "m_decompressed"
  /\ UNCHANGED <<data, i, B, ret, file, L, errs, env>>

\* decompress: fopen(output_file, "wb"); if (f) fwrite(...); cleanup; return 0
main_write ==
  /\ pc = "m_decompressed"
  /\ IF out_ok
     THEN /\ out_written' = TRUE
          /\ outfile' = output
          /\ UNCHANGED errs
     ELSE /\ errs' = errs \cup {"fopen_out"}
          /\ UNCHANGED <<out_written, outfile>>
  /\ Exit(0)
  /\ UNCHANGED <<data, i, B, ret, file, L, output>>
  /\ UNCHANGED <<cmd, in_ok, infile, out_ok, stats>>

MainRun(cap) ==
  \/ main_usage \/ main_unknown
  \/ main_read_file \/ CompressReturn \/ main_stats \/ main_save
  \/ main_load(cap) \/ main_decompress \/ main_write

NextMain == CompressStep(MAX_RANK, POSITION_BITS) \/ MainRun(MAX_RANK)

NextMainCap == CompressStep(CapModel, POSITION_BITS) \/ MainRun(CapModel)

Spec == Init /\ [][Next]_vars

\* a run of main, with the capacity of the program
SpecMain == InitMain /\ [][NextMain]_vars

\* a run of main, with the capacity scaled to CapModel
SpecMainCap == InitMainCap /\ [][NextMainCap]_vars

SpecLong == InitLong /\ [][Next]_vars

SpecCap == Init /\ [][NextCap]_vars

\* the program runs on: every step that can be taken is taken
SpecFair == Init /\ [][Next]_vars /\ WF_vars(Next)

\* long inputs, with the width of a position scaled to PosBitsModel
SpecPos == InitLong /\ [][NextPos]_vars

\* ---------------------------------------------------- GF(2) linear algebra
\* the XOR of the basis entries at the (1-based) indices of S
RECURSIVE XorOf(_, _)
XorOf(b, S) ==
  IF S = {} THEN 0
  ELSE LET k == CHOOSE m \in S : TRUE IN Xor(b[k], XorOf(b, S \ {k}))

\* the values that are the XOR of a subset of the entries b[1..n]: the subsets
\* without b[n], and those with it
RECURSIVE SpanOf(_, _)
SpanOf(b, n) ==
  IF n = 0 THEN {0}
  ELSE LET s == SpanOf(b, n - 1) IN s \cup {Xor(b[n], v) : v \in s}

\* the dimension of a GF(2) subspace with c elements
RECURSIVE Log2(_)
Log2(c) == IF c <= 1 THEN 0 ELSE 1 + Log2(c \div 2)

Dim(b, n) == Log2(Cardinality(SpanOf(b, n)))

\* the basis indices (0-based) the derivation map associates with input
\* position p
derivation_record(p) == {k \in 0..(B.rank - 1) : B.derivation[k + 1] = p}

compressed == pc # "compress"

\* an add_to_basis call is a step that advances the loop index
add_call == i' = i + 1

\* ------------------------------------------------------------------ claims

\* C1: round trip: compressing, saving, loading and decompressing any input
\* gives an output of the same length with the same byte at every position.
RoundTrip ==
  pc = "done" =>
    /\ Len(output) = Len(data)
    /\ \A p \in 1..Len(data) : output[p] = data[p]

\* C2: derivation correctness: after canon_compress, for every input position
\* the XOR of the basis entries named by its derivation record is the input
\* byte at that position.
DerivationCorrect ==
  compressed =>
    \A p \in 0..(size - 1) :
      XorOf(B.basis, {k + 1 : k \in derivation_record(p)}) = data[p + 1]

\* C3: generating set: after canon_compress, every input byte is the XOR of
\* some subset of the final basis entries.
GeneratingSet ==
  compressed => \A p \in 1..size : data[p] \in SpanOf(B.basis, B.rank)

\* C4: the rank canon_compress returns is the dimension of the GF(2) span of
\* the input bytes.
RankIsDimension ==
  compressed => B.rank = Dim(data, size)

\* C5: rank bound: the rank never exceeds the unit width W = 8.
RankBound == B.rank <= W

\* C6: monotonic rank: every add_to_basis call leaves the rank unchanged or
\* raises it by exactly 1, and raises it exactly when it returns true.
MonotonicRankStep ==
  add_call =>
    /\ B'.rank = B.rank \/ B'.rank = B.rank + 1
    /\ ret' <=> (B'.rank = B.rank + 1)

MonotonicRank == [][MonotonicRankStep]_vars

\* a call returned false at full capacity after calls that grew the rank
MonotonicRankWitness == i = CapModel + 1 /\ B.rank = CapModel /\ ret = FALSE

\* C7: linear independence: no basis entry is the XOR of a subset of the
\* earlier entries.
LinearIndependence ==
  \A k \in 1..B.rank : B.basis[k] \notin SpanOf(B.basis, k - 1)

\* C8: distinct pivots: no two basis entries have the same highest set bit.
DistinctPivots ==
  \A j, k \in 1..B.rank :
    j # k => highest_bit(B.basis[j]) # highest_bit(B.basis[k])

\* C9: the zero unit is never inserted: a call on the unit 0 returns false,
\* every basis entry is nonzero, and an all-zero input ends with rank 0.
ZeroNeverInserted ==
  /\ (pc = "compress" /\ i > 0 /\ data[i] = 0) => ret = FALSE
  /\ \A k \in 1..B.rank : B.basis[k] # 0
  /\ (\A p \in 1..i : data[p] = 0) => B.rank = 0

\* C10: append-only basis: an add_to_basis call leaves every basis and
\* derivation entry below the old rank as it was, and removes none.
AppendOnlyStep ==
  add_call =>
    /\ B'.rank >= B.rank
    /\ \A k \in 1..B.rank :
         /\ B'.basis[k] = B.basis[k]
         /\ B'.derivation[k] = B.derivation[k]

AppendOnly == [][AppendOnlyStep]_vars

\* an insertion into a basis that already held two entries
AppendOnlyWitness == B.rank = 3 /\ ret = TRUE /\ i = 3

\* the orderings of a sequence
Perms(d) ==
  {[k \in 1..Len(d) |-> d[f[k]]] :
     f \in {g \in [1..Len(d) -> 1..Len(d)] : \A j, k \in 1..Len(d) : j # k => g[j] # g[k]}}

\* C11: exact span membership: in_span(x, B) is true exactly when x is the
\* XOR of some subset of the basis entries.
ExactSpanMembership ==
  \A x \in Units : in_span(x, B) <=> x \in SpanOf(B.basis, B.rank)

\* C12: independence of input order: every permutation of the input ends
\* with the same rank.
InputOrderIndependent ==
  compressed =>
    \A d \in Perms(data) : canon_compress(d, MAX_RANK).rank = B.rank

\* C13: no repeated basis entry: the basis entries are pairwise distinct.
NoRepeatedEntry ==
  \A j, k \in 1..B.rank : j # k => B.basis[j] # B.basis[k]

\* C14: empty input: canon_compress on zero units returns rank 0 with no
\* basis entry, and decompressing that result gives an empty output.
EmptyInput ==
  size = 0 =>
    /\ compressed => B.rank = 0 /\ B.basis = << >>
    /\ pc = "done" => output = << >>

\* the empty input went through compression and decompression
EmptyInputWitness == size = 0 /\ pc = "done"

\* C15: independent units are inserted: below the capacity, add_to_basis on a
\* nonzero unit that is no XOR-combination of the basis entries returns true,
\* raises the rank by 1 and stores the unit at the index of the old rank.
IndependentInserted ==
  \A x \in Units \ SpanOf(B.basis, B.rank) :
    (x # 0 /\ B.rank < MAX_RANK) =>
      LET r == add_to_basis(B, x, i, MAX_RANK)
      IN  /\ r.ret = TRUE
          /\ r.B.rank = B.rank + 1
          /\ r.B.basis[B.rank + 1] = x
          /\ \A k \in 1..B.rank : r.B.basis[k] = B.basis[k]

\* the units 1 and 2 were inserted in turn: basis [1,2], rank 2
IndependentInsertedWitness ==
  i = 2 /\ data[1] = 1 /\ data[2] = 2 /\ B.basis = <<1, 2>> /\ B.rank = 2 /\ ret = TRUE

\* the file starts with the 5 bytes "CANON"
magic_prefix(f) == Len(f) >= 5 /\ SubSeq(f, 1, 5) = Magic

\* the file has the magic but ends before its rank field does, or holds fewer
\* bytes than the rank basis bytes and rank derivation words it declares
truncated(f) ==
  /\ magic_prefix(f)
  /\ \/ Len(f) < 9
     \/ Len(f) < 9 + 5 * from_le32(SubSeq(f, 6, 9))

\* C16: CLI exit code: a compress or decompress run exits with 0 when it
\* succeeds and with a nonzero code whenever an I/O or format error occurred
\* (input not openable, output not openable, bad magic).
ExitCodeContract ==
  (pc = "exit" /\ cmd \in {"compress", "decompress"}) =>
    (exit_code = 0 <=> errs \cap {"fopen_in", "fopen_out", "bad_magic", "malloc"} = {})

\* C17: bad magic is rejected: on a file whose first 5 bytes are not "CANON"
\* (shorter files included) load_compressed returns NULL and the decompress
\* command exits nonzero without opening or writing the output file.
BadMagicRejected ==
  (cmd = "decompress" /\ in_ok /\ ~magic_prefix(infile)) =>
    /\ pc \in {"main", "exit"}
    /\ pc = "exit" => exit_code # 0 /\ "bad_magic" \in errs
    /\ ~out_written /\ outfile = << >> /\ "fopen_out" \notin errs

\* the decompress command has exited on a file of 1 to 4 bytes, all of them
\* the start of the magic
BadMagicWitness ==
  /\ cmd = "decompress" /\ in_ok /\ pc = "exit"
  /\ Len(infile) = 3 /\ infile = SubSeq(Magic, 1, 3)

\* C18: truncated files are rejected: on a file with the right magic that
\* ends before its rank field or holds less than its rank declares, the
\* decompress command exits nonzero and writes no output.
TruncatedRejected ==
  (cmd = "decompress" /\ in_ok /\ truncated(infile)) =>
    /\ pc = "exit" => exit_code # 0
    /\ ~out_written

\* C19: capacity errors are fatal: once a unit has met the full basis
\* ("Error: Maximum rank exceeded"), canon_compress does not hand back a
\* basis, and the compress command does not save one and exit 0.
CapacityFatal ==
  "max_rank" \in errs =>
    /\ pc \notin {"compressed", "m_stats"}
    /\ ~out_written
    /\ pc = "exit" => exit_code # 0

\* C20: read-only after construction: once canon_compress has returned,
\* compute_stats and save_compressed leave the rank, basis and derivation of
\* the structure as they were, and so does canon_decompress with the
\* structure it is given.
ReadOnlyStep ==
  /\ (cmd = "compress" /\ pc \in {"compressed", "m_stats"}) =>
       /\ B'.rank = B.rank
       /\ B'.basis = B.basis
       /\ B'.derivation = B.derivation
  /\ pc = "m_loaded" =>
       /\ L'.rank = L.rank
       /\ L'.basis = L.basis
       /\ L'.derivation = L.derivation

ReadOnlyAfterConstruction == [][ReadOnlyStep]_vars

\* a compress run computed its statistics, saved a basis of rank 2 and exited
ReadOnlyWitness ==
  /\ cmd = "compress" /\ pc = "exit" /\ out_written
  /\ B.rank = 2 /\ stats.rank = 2 /\ Len(outfile) = 19

\* C21 (as claimed): the value appended on insertion is the residue of the
\* reduction of the unit against the current basis, not the raw unit.
ResidueAppendedStep ==
  (add_call /\ ret') => B'.basis[B.rank + 1] = reduce(data[i + 1], B, 0)

RawUnitAppendedStep ==
  (add_call /\ ret') =>
    /\ B'.rank = B.rank + 1
    /\ B'.basis[B.rank + 1] = data[i + 1]

InSpanAgreesWithPaper ==
  \A x \in Units : in_span(x, B) <=> InSpan(x, B)

\* C23: single forward pass: canon_compress calls add_to_basis once per unit,
\* in input order, and returns after the last unit; one call of in_span makes
\* at most rank loop iterations; canon_compress terminates.
SinglePassStep ==
  i' # i =>
    /\ pc = "compress" /\ i < size /\ i' = i + 1
    /\ data' = data
    /\ B' = add_to_basis(B, data[i + 1], to_uint(i, POSITION_BITS), MAX_RANK).B

SinglePass ==
  /\ [][SinglePassStep]_vars
  /\ [](compressed => i = size /\ B = canon_compress(data, MAX_RANK))
  /\ [](\A x \in Units : in_span_iterations(x, B) <= B.rank)
  /\ <>(pc = "compressed")

\* canon_compress returned after a pass over MaxLen units; the last unit was
\* turned away by an in_span that ran its loop over a basis of rank 2
SinglePassWitness ==
  /\ pc = "compressed" /\ i = size /\ size = MaxLen
  /\ ret = FALSE /\ B.rank = 2 /\ in_span_iterations(data[size], B) = 2

\* the units of d from index i on for which add_to_basis returns true, in
\* input order
RECURSIVE inserted_from(_, _, _)
inserted_from(B0, d, idx) ==
  IF idx >= Len(d) THEN << >>
  ELSE LET r == add_to_basis(B0, d[idx + 1], to_uint(idx, POSITION_BITS), MAX_RANK)
       IN  (IF r.ret THEN <<d[idx + 1]>> ELSE << >>) \o inserted_from(r.B, d, idx + 1)

RejectedUnitStep ==
  (add_call /\ ~ret') => B' = B

RejectedUnitChangesNothing == [][RejectedUnitStep]_vars

\* a unit was rejected at full capacity, and the last unit of the input in turn
RejectedUnitWitness ==
  /\ pc = "compress" /\ i = size /\ size = CapModel + 1
  /\ ret = FALSE /\ "max_rank" \in errs /\ B.rank = CapModel

\* C26: derivation map of positions: during canon_compress every
\* derivation[k] below the rank is a position already processed, holds the
\* position of the unit stored in basis[k], and the positions increase with k.
DerivationPositions ==
  /\ \A k \in 1..B.rank :
       /\ B.derivation[k] \in 0..(i - 1)
       /\ data[B.derivation[k] + 1] = B.basis[k]
  /\ \A j, k \in 1..B.rank : j < k => B.derivation[j] < B.derivation[k]

\* a unit was inserted at a basis index below its input position
DerivationPositionsWitness ==
  pc = "compress" /\ B.rank = 2 /\ B.derivation = <<0, 2>> /\ i = 3

\* C27: buffer bound during construction: the rank never exceeds the capacity
\* (MAX_RANK in the program), so basis and derivation are written only below
\* it.
BufferBound ==
  /\ B.rank <= CapModel
  /\ Len(B.basis) <= CapModel
  /\ Len(B.derivation) <= CapModel

\* the basis is full and a further unit was turned away
BufferBoundWitness ==
  B.rank = CapModel /\ Len(B.basis) = CapModel /\ "max_rank" \in errs /\ pc = "compressed"

\* C28: buffer bound on load: for every file with valid magic, whatever rank
\* its header declares, load_compressed returns a rank of at most the capacity
\* (MAX_RANK in the program) and reads at most that many basis bytes and
\* derivation entries into the buffers.
LoadBufferBound ==
  (cmd = "decompress" /\ in_ok /\ magic_prefix(infile)) =>
    /\ L.rank <= CapModel
    /\ pc \in {"m_loaded", "m_decompressed"} =>
         LET body == SubSeq(infile, 10, Len(infile))
             basis_read == IF L.rank <= Len(body) THEN L.rank ELSE Len(body)
             left == Len(body) - basis_read
             words_read == IF L.rank <= left \div 4 THEN L.rank ELSE left \div 4
         IN  basis_read <= CapModel /\ words_read <= CapModel

\* C29: persistence round trip: load_compressed on the file save_compressed
\* wrote for the structure of canon_compress returns the same rank, the same
\* basis[0..rank-1] and the same derivation[0..rank-1].
PersistenceRoundTrip ==
  pc \in {"loaded", "done"} =>
    /\ L.rank = B.rank
    /\ L.basis = SubSeq(B.basis, 1, B.rank)
    /\ L.derivation = SubSeq(B.derivation, 1, B.rank)
    /\ load_results(file) = {[null |-> FALSE, B |-> L]}

\* a structure of rank 3 came back from its file of 24 bytes
PersistenceRoundTripWitness ==
  /\ pc = "loaded" /\ B.rank = 3 /\ Len(file) = 24
  /\ L.basis = B.basis /\ L.derivation = <<0, 1, 3>>

\* C30: invalid invocations do nothing: a run with fewer than two arguments,
\* or with a subcommand other than compress or decompress, exits with code 1
\* and opens, creates or writes no file.
InvalidInvocation ==
  cmd \in {"usage", "other"} =>
    /\ pc \in {"main", "exit"}
    /\ pc = "exit" => exit_code = 1
    /\ ~out_written /\ outfile = << >>
    /\ errs \cap {"fopen_in", "fopen_out", "bad_magic", "malloc"} = {}
    /\ data = << >> /\ L = basis_init /\ B = basis_init /\ output = << >>

\* a run with an unknown subcommand has exited
InvalidInvocationWitness ==
  cmd = "other" /\ pc = "exit" /\ exit_code = 1 /\ "unknown_command" \in errs

====
